---------------------------- MODULE Spec2Model ----------------------------
(***************************************************************************)
(* SyncFlowFactory (samcli/lib/sync/sync_flow_factory.py): the factory     *)
(* that turns a resource identifier into a SyncFlow, by resource type.     *)
(*                                                                         *)
(* Python values are modelled as follows.  A dict is a function whose      *)
(* DOMAIN is its key set.  A str value that may also be None is the record *)
(* [str |-> s]; None is the record [none |-> TRUE], so that any two Python *)
(* values can be compared.  An exception leaving a call is the record      *)
(* [raised |-> name].                                                      *)
(***************************************************************************)
EXTENDS Integers, Sequences, FiniteSets, TLC

\* ----------------------------------------------------------------- bounds
\* Caller threads of create_sync_flow in the concurrent specification.
NumCallers == 2
\* Distinct physical ids the remote may assign to a logical id.
MaxPhysicalIds == 2
\* Records the log holds before no further call is started.
MaxLog == 3

Callers == 1..NumCallers

\* ---------------------------------------------------------- Python values
None == [none |-> TRUE]
Str(s) == [str |-> s]
EmptyDict == [k \in {} |-> None]
Raised(name) == [raised |-> name]

\* dict.get(key, default)
Get(d, key, default) == IF key \in DOMAIN d THEN d[key] ELSE default

\* bool(value), for None, dicts, strs and function objects
Truthy(value) == value \notin {None, EmptyDict, Str("")}

\* ------------------------------------------------------- domain vocabulary
ZIP == Str("Zip")
IMAGE == Str("Image")

AWS_SERVERLESS_FUNCTION == Str("AWS::Serverless::Function")
AWS_LAMBDA_FUNCTION == Str("AWS::Lambda::Function")
AWS_SERVERLESS_LAYERVERSION == Str("AWS::Serverless::LayerVersion")
AWS_LAMBDA_LAYERVERSION == Str("AWS::Lambda::LayerVersion")
AWS_SERVERLESS_API == Str("AWS::Serverless::Api")
AWS_APIGATEWAY_RESTAPI == Str("AWS::ApiGateway::RestApi")
AWS_SERVERLESS_HTTPAPI == Str("AWS::Serverless::HttpApi")
AWS_APIGATEWAY_V2_API == Str("AWS::ApiGatewayV2::Api")
AWS_SERVERLESS_STATEMACHINE == Str("AWS::Serverless::StateMachine")
AWS_STEPFUNCTIONS_STATEMACHINE == Str("AWS::StepFunctions::StateMachine")

\* ------------------------------------------------------------------ inputs
\* A resource identifier: the stack path ("" for the root stack) and the
\* logical id within that stack.
ResourceIdentifier(stack_path, resource_iac_id) ==
    [stack_path |-> stack_path, resource_iac_id |-> resource_iac_id]

RootId == ResourceIdentifier("", "A")
NestedId == ResourceIdentifier("ChildStack", "B")
Identifiers == {RootId, NestedId}

\* str(resource_identifier)
str(resource_identifier) ==
    IF resource_identifier.stack_path = ""
    THEN resource_identifier.resource_iac_id
    ELSE resource_identifier.stack_path \o "/" \o resource_identifier.resource_iac_id

\* Values of the PackageType property in the templates considered.
PackageTypeValues == {ZIP, IMAGE, Str("Banana"), Str("zip"), None}
\* Values of the DefinitionSubstitutions property.
DefinitionSubstitutionsValues == {EmptyDict, [Key |-> Str("Val")]}

\* Property bags: each of the two properties present or not.
PropertyBags ==
    {EmptyDict}
    \cup {[PackageType |-> p] : p \in PackageTypeValues}
    \cup {[DefinitionSubstitutions |-> d] : d \in DefinitionSubstitutionsValues}
    \cup {[PackageType |-> p, DefinitionSubstitutions |-> d] :
            p \in PackageTypeValues, d \in DefinitionSubstitutionsValues}

SupportedTypes ==
    {AWS_SERVERLESS_FUNCTION, AWS_LAMBDA_FUNCTION,
     AWS_SERVERLESS_LAYERVERSION, AWS_LAMBDA_LAYERVERSION,
     AWS_SERVERLESS_API, AWS_APIGATEWAY_RESTAPI,
     AWS_SERVERLESS_HTTPAPI, AWS_APIGATEWAY_V2_API,
     AWS_SERVERLESS_STATEMACHINE, AWS_STEPFUNCTIONS_STATEMACHINE}

ResourceTypes == SupportedTypes \cup {Str("AWS::S3::Bucket")}

\* Resource declarations: a Type and a Properties bag, a Type alone, or
\* (a kind-less declaration) a Properties bag alone.
Resources ==
    {[Type |-> t, Properties |-> p] : t \in ResourceTypes, p \in PropertyBags}
    \cup {[Type |-> t] : t \in ResourceTypes}
    \cup {[Properties |-> p] : p \in {EmptyDict, [PackageType |-> ZIP]}}

\* One stack of the collection.
Stack(stack_path, resources) == [stack_path |-> stack_path, resources |-> resources]

\* The stack collections considered: a root stack and one nested stack,
\* holding one resource between them.
StackCollections(resourceSet) ==
    {<<Stack("", ("A" :> r)), Stack("ChildStack", EmptyDict)>> : r \in resourceSet}
    \cup {<<Stack("", EmptyDict), Stack("ChildStack", ("B" :> r))>> : r \in resourceSet}

\* What the remote lookup may return: logical id "A" unmapped, or mapped to
\* one of the physical ids.
PhysicalIdMappings ==
    {EmptyDict} \cup {("A" :> Str("phys-" \o ToString(n))) : n \in 1..MaxPhysicalIds}

VARIABLES
    stacks,                 \* self._stacks
    build_context,          \* self._build_context
    deploy_context,         \* self._deploy_context
    auto_dependency_layer,  \* self._auto_dependency_layer
    physical_id_mapping,    \* self._physical_id_mapping
    LOG,                    \* records emitted through the module logger
    remote_call,            \* the remote lookup in flight (its arguments), or None
    load_status,            \* how the last load ended: "none", "returned", "raised"
    remote_result,          \* the mapping the remote last returned, None before
    pc,                     \* per caller: position in create_sync_flow
    rid,                    \* per caller: the resource_identifier argument
    resource,               \* per caller: local variable resource
    generator,              \* per caller: local variable generator
    invoked,                \* per caller: the handler the call invoked, or None
    result                  \* per caller: what create_sync_flow returned

factory == <<stacks, build_context, deploy_context, auto_dependency_layer,
             physical_id_mapping>>
calls == <<pc, rid, resource, generator, invoked, result>>
vars == <<stacks, build_context, deploy_context, auto_dependency_layer,
          physical_id_mapping, LOG, remote_call, load_status, remote_result,
          pc, rid, resource, generator, invoked, result>>

\* ------------------------------------------------------- external lookups
\* get_resource_by_id(stacks, identifier): the declaration of the resource
\* in the stack the identifier names, or None.
RECURSIVE get_resource_by_id(_, _)
get_resource_by_id(stack_list, identifier) ==
    IF stack_list = <<>> THEN None
    ELSE IF /\ Head(stack_list).stack_path = identifier.stack_path
            /\ identifier.resource_iac_id \in DOMAIN Head(stack_list).resources
         THEN Head(stack_list).resources[identifier.resource_iac_id]
         ELSE get_resource_by_id(Tail(stack_list), identifier)

\* get_boto_resource_provider_with_config(region_name) and the stack name:
\* the arguments of one get_physical_id_mapping call.
RemoteCall(region_name, stack_name) ==
    [region_name |-> region_name, stack_name |-> stack_name]

\* A log record.
LogRecord(level, msg, arg) == [level |-> level, msg |-> msg, arg |-> arg]

\* ------------------------------------------------------------ SyncFlows
\* Every flow class takes the same five constructor arguments.
SyncFlow(cls, identifier_str) ==
    [cls |-> cls,
     identifier |-> identifier_str,
     build_context |-> build_context,
     deploy_context |-> deploy_context,
     physical_id_mapping |-> physical_id_mapping,
     stacks |-> stacks]

\* What a handler does: the value it returns and the records it logs.
Outcome(ret, log) == [ret |-> ret, log |-> log]

\* --------------------------------------------------------------- handlers
\* Mutant: PackageType read without its default.
_create_lambda_flow_no_default(resource_identifier, res) ==
    LET package_type == Get(Get(res, "Properties", EmptyDict), "PackageType", None)
    IN  IF package_type = ZIP
        THEN Outcome(SyncFlow(IF auto_dependency_layer
                              THEN "AutoDependencyLayerParentSyncFlow"
                              ELSE "ZipFunctionSyncFlow",
                              str(resource_identifier)), <<>>)
        ELSE IF package_type = IMAGE
             THEN Outcome(SyncFlow("ImageFunctionSyncFlow",
                                   str(resource_identifier)), <<>>)
             ELSE Outcome(None, <<>>)

\* Mutant: the auto-dependency-layer flag tested before the package type.
_create_lambda_flow_flag_first(resource_identifier, res) ==
    LET package_type == Get(Get(res, "Properties", EmptyDict), "PackageType", ZIP)
    IN  IF auto_dependency_layer /\ package_type \in {ZIP, IMAGE}
        THEN Outcome(SyncFlow("AutoDependencyLayerParentSyncFlow",
                              str(resource_identifier)), <<>>)
        ELSE IF package_type = ZIP
             THEN Outcome(SyncFlow("ZipFunctionSyncFlow",
                                   str(resource_identifier)), <<>>)
             ELSE IF package_type = IMAGE
                  THEN Outcome(SyncFlow("ImageFunctionSyncFlow",
                                        str(resource_identifier)), <<>>)
                  ELSE Outcome(None, <<>>)

\* Mutant: every package type but Image taken to be Zip.
_create_lambda_flow_else_zip(resource_identifier, res) ==
    LET package_type == Get(Get(res, "Properties", EmptyDict), "PackageType", ZIP)
    IN  IF package_type = IMAGE
        THEN Outcome(SyncFlow("ImageFunctionSyncFlow",
                              str(resource_identifier)), <<>>)
        ELSE Outcome(SyncFlow(IF auto_dependency_layer
                              THEN "AutoDependencyLayerParentSyncFlow"
                              ELSE "ZipFunctionSyncFlow",
                              str(resource_identifier)), <<>>)

_create_lambda_flow(resource_identifier, res) ==
    LET package_type == Get(Get(res, "Properties", EmptyDict), "PackageType", ZIP)
    IN  IF package_type = ZIP
        THEN IF auto_dependency_layer
             THEN Outcome(SyncFlow("AutoDependencyLayerParentSyncFlow",
                                   str(resource_identifier)), <<>>)
             ELSE Outcome(SyncFlow("ZipFunctionSyncFlow",
                                   str(resource_identifier)), <<>>)
        ELSE IF package_type = IMAGE
             THEN Outcome(SyncFlow("ImageFunctionSyncFlow",
                                   str(resource_identifier)), <<>>)
             ELSE Outcome(None, <<>>)

\* Mutant: the layer handler builds the REST API flow.
_create_layer_flow_wrong_class(resource_identifier, res) ==
    Outcome(SyncFlow("RestApiSyncFlow", str(resource_identifier)), <<>>)

_create_layer_flow(resource_identifier, res) ==
    Outcome(SyncFlow("LayerSyncFlow", str(resource_identifier)), <<>>)

_create_rest_api_flow(resource_identifier, res) ==
    Outcome(SyncFlow("RestApiSyncFlow", str(resource_identifier)), <<>>)

_create_api_flow(resource_identifier, res) ==
    Outcome(SyncFlow("HttpApiSyncFlow", str(resource_identifier)), <<>>)

\* Mutant: the property tested for presence, not for truth.
_create_stepfunctions_flow_is_not_none(resource_identifier, res) ==
    LET definition_substitutions ==
            Get(Get(res, "Properties", EmptyDict), "DefinitionSubstitutions", None)
    IN  IF definition_substitutions # None
        THEN Outcome(None,
                     <<LogRecord("WARNING",
                                 "DefinitionSubstitutions property is specified in resource %s. Skipping this resource.",
                                 str(resource_identifier))>>)
        ELSE Outcome(SyncFlow("StepFunctionsSyncFlow", str(resource_identifier)), <<>>)

_create_stepfunctions_flow(resource_identifier, res) ==
    LET definition_substitutions ==
            Get(Get(res, "Properties", EmptyDict), "DefinitionSubstitutions", None)
    IN  IF Truthy(definition_substitutions)
        THEN Outcome(None,
                     <<LogRecord("WARNING",
                                 "DefinitionSubstitutions property is specified in resource %s. Skipping this resource.",
                                 str(resource_identifier))>>)
        ELSE Outcome(SyncFlow("StepFunctionsSyncFlow", str(resource_identifier)), <<>>)

\* Mutant: the expanded function form registered under the layer handler.
GENERATOR_MAPPING_forms_differ ==
    (AWS_LAMBDA_FUNCTION :> "_create_layer_flow")
    @@ (AWS_SERVERLESS_FUNCTION :> "_create_lambda_flow")
    @@ (AWS_SERVERLESS_LAYERVERSION :> "_create_layer_flow")
    @@ (AWS_LAMBDA_LAYERVERSION :> "_create_layer_flow")
    @@ (AWS_SERVERLESS_API :> "_create_rest_api_flow")
    @@ (AWS_APIGATEWAY_RESTAPI :> "_create_rest_api_flow")
    @@ (AWS_SERVERLESS_HTTPAPI :> "_create_api_flow")
    @@ (AWS_APIGATEWAY_V2_API :> "_create_api_flow")
    @@ (AWS_SERVERLESS_STATEMACHINE :> "_create_stepfunctions_flow")
    @@ (AWS_STEPFUNCTIONS_STATEMACHINE :> "_create_stepfunctions_flow")

\* The handler table: resource type -> the handler's name.
GENERATOR_MAPPING ==
    (AWS_LAMBDA_FUNCTION :> "_create_lambda_flow")
    @@ (AWS_SERVERLESS_FUNCTION :> "_create_lambda_flow")
    @@ (AWS_SERVERLESS_LAYERVERSION :> "_create_layer_flow")
    @@ (AWS_LAMBDA_LAYERVERSION :> "_create_layer_flow")
    @@ (AWS_SERVERLESS_API :> "_create_rest_api_flow")
    @@ (AWS_APIGATEWAY_RESTAPI :> "_create_rest_api_flow")
    @@ (AWS_SERVERLESS_HTTPAPI :> "_create_api_flow")
    @@ (AWS_APIGATEWAY_V2_API :> "_create_api_flow")
    @@ (AWS_SERVERLESS_STATEMACHINE :> "_create_stepfunctions_flow")
    @@ (AWS_STEPFUNCTIONS_STATEMACHINE :> "_create_stepfunctions_flow")

_get_generator_mapping == GENERATOR_MAPPING

\* generator(self, resource_identifier, resource), for a handler of the table.
CallGenerator(name, resource_identifier, res) ==
    CASE name = "_create_lambda_flow" -> _create_lambda_flow(resource_identifier, res)
      [] name = "_create_layer_flow" -> _create_layer_flow(resource_identifier, res)
      [] name = "_create_rest_api_flow" -> _create_rest_api_flow(resource_identifier, res)
      [] name = "_create_api_flow" -> _create_api_flow(resource_identifier, res)
      [] name = "_create_stepfunctions_flow" ->
            _create_stepfunctions_flow(resource_identifier, res)

\* ---------------------------------------------------------- Type Registry
\* ResourceTypeBasedFactory._get_resource_type
_get_resource_type(resource_identifier) ==
    LET res == get_resource_by_id(stacks, resource_identifier)
    IN  IF ~Truthy(res) THEN None ELSE Get(res, "Type", None)

\* ResourceTypeBasedFactory._get_generator_function
_get_generator_function(resource_identifier) ==
    LET resource_type == _get_resource_type(resource_identifier)
    IN  IF ~Truthy(resource_type)
        THEN None
        ELSE IF resource_type \in DOMAIN _get_generator_mapping
             THEN Str(_get_generator_mapping[resource_type])
             ELSE None

\* ---------------------------------------------------------------- __init__
BuildContexts == {[build_dir |-> ".aws-sam/build"]}
DeployContexts == {[region |-> r, stack_name |-> "sam-app"] : r \in {None, Str("us-east-1")}}

InitWith(resourceSet) ==
    /\ stacks \in StackCollections(resourceSet)
    /\ build_context \in BuildContexts
    /\ deploy_context \in DeployContexts
    /\ auto_dependency_layer \in BOOLEAN
    /\ physical_id_mapping = EmptyDict
    /\ LOG = <<>>
    /\ remote_call = None
    /\ load_status = "none"
    /\ remote_result = None
    /\ pc = [c \in Callers |-> "idle"]
    /\ rid = [c \in Callers |-> None]
    /\ resource = [c \in Callers |-> None]
    /\ generator = [c \in Callers |-> None]
    /\ invoked = [c \in Callers |-> None]
    /\ result = [c \in Callers |-> None]

Init == InitWith(Resources)

\* Calls in flight that may still log.
InFlight == Cardinality({c \in Callers : pc[c] \notin {"idle", "done"}})

\* ------------------------------------------------ load_physical_id_mapping
\* Lines 75-80: log, build the provider for the region, call the remote.
LoadBegin ==
    /\ remote_call = None
    /\ Len(LOG) + InFlight < MaxLog
    /\ LOG' = Append(LOG, LogRecord("DEBUG", "Loading physical ID mapping", ""))
    /\ remote_call' = RemoteCall(IF Truthy(deploy_context.region)
                                 THEN deploy_context.region ELSE None,
                                 deploy_context.stack_name)
    /\ UNCHANGED <<factory, load_status, remote_result, calls>>

\* Mutant: the returned mapping merged into the held one (dict.update).
LoadReturn_update(mapping) ==
    /\ remote_call # None
    /\ physical_id_mapping' = mapping @@ physical_id_mapping
    /\ remote_result' = mapping
    /\ remote_call' = None
    /\ load_status' = "returned"
    /\ UNCHANGED <<stacks, build_context, deploy_context, auto_dependency_layer,
                   LOG, calls>>

\* Line 76: the remote returns mapping, which replaces the held one.
LoadReturn(mapping) ==
    /\ remote_call # None
    /\ physical_id_mapping' = mapping
    /\ remote_result' = mapping
    /\ remote_call' = None
    /\ load_status' = "returned"
    /\ UNCHANGED <<stacks, build_context, deploy_context, auto_dependency_layer,
                   LOG, calls>>

\* Mutant: the held mapping reset when the remote fails.
LoadRaise_resets ==
    /\ remote_call # None
    /\ remote_call' = None
    /\ load_status' = "raised"
    /\ physical_id_mapping' = EmptyDict
    /\ UNCHANGED <<stacks, build_context, deploy_context, auto_dependency_layer,
                   LOG, remote_result, calls>>

\* The remote fails: the exception leaves load_physical_id_mapping before
\* the assignment of line 76.
LoadRaise ==
    /\ remote_call # None
    /\ remote_call' = None
    /\ load_status' = "raised"
    /\ UNCHANGED <<factory, LOG, remote_result, calls>>

\* --------------------------------------------------------- create_sync_flow
\* A caller enters create_sync_flow(resource_identifier).
Call(c, resource_identifier) ==
    /\ pc[c] \in {"idle", "done"}
    /\ Len(LOG) + InFlight < MaxLog
    /\ pc' = [pc EXCEPT ![c] = "get_resource"]
    /\ rid' = [rid EXCEPT ![c] = resource_identifier]
    /\ resource' = [resource EXCEPT ![c] = None]
    /\ generator' = [generator EXCEPT ![c] = None]
    /\ invoked' = [invoked EXCEPT ![c] = None]
    /\ result' = [result EXCEPT ![c] = None]
    /\ UNCHANGED <<factory, LOG, remote_call, load_status, remote_result>>

\* Mutant: the resolved resource kept in one slot shared by all callers.
GetResource_shared(c) ==
    /\ pc[c] = "get_resource"
    /\ resource' = [d \in Callers |-> get_resource_by_id(stacks, rid[c])]
    /\ pc' = [pc EXCEPT ![c] = "get_generator"]
    /\ UNCHANGED <<factory, LOG, remote_call, load_status, remote_result,
                   rid, generator, invoked, result>>

\* Line 180
GetResource(c) ==
    /\ pc[c] = "get_resource"
    /\ resource' = [resource EXCEPT ![c] = get_resource_by_id(stacks, rid[c])]
    /\ pc' = [pc EXCEPT ![c] = "get_generator"]
    /\ UNCHANGED <<factory, LOG, remote_call, load_status, remote_result,
                   rid, generator, invoked, result>>

\* Line 181
GetGenerator(c) ==
    /\ pc[c] = "get_generator"
    /\ generator' = [generator EXCEPT ![c] = _get_generator_function(rid[c])]
    /\ pc' = [pc EXCEPT ![c] = "dispatch"]
    /\ UNCHANGED <<factory, LOG, remote_call, load_status, remote_result,
                   rid, resource, invoked, result>>

\* Mutant: the guard of line 182 with "and" for "or"; calling None raises.
Dispatch_and(resource_identifier, gen, res) ==
    IF ~Truthy(gen) /\ ~Truthy(res)
    THEN [invoked |-> None, ret |-> None, log |-> <<>>]
    ELSE IF ~Truthy(gen)
         THEN [invoked |-> None, ret |-> Raised("TypeError"), log |-> <<>>]
         ELSE LET out == CallGenerator(gen.str, resource_identifier, res)
              IN  [invoked |-> gen, ret |-> out.ret, log |-> out.log]

\* Lines 182-184, on the locals gen and res: the handler invoked (or None),
\* the value returned and the records logged.
Dispatch(resource_identifier, gen, res) ==
    IF ~Truthy(gen) \/ ~Truthy(res)
    THEN [invoked |-> None, ret |-> None, log |-> <<>>]
    ELSE LET out == CallGenerator(gen.str, resource_identifier, res)
         IN  [invoked |-> gen, ret |-> out.ret, log |-> out.log]

\* Lines 182-184
Return(c) ==
    /\ pc[c] = "dispatch"
    /\ LET d == Dispatch(rid[c], generator[c], resource[c])
       IN  /\ invoked' = [invoked EXCEPT ![c] = d.invoked]
           /\ result' = [result EXCEPT ![c] = d.ret]
           /\ LOG' = LOG \o d.log
    /\ pc' = [pc EXCEPT ![c] = "done"]
    /\ UNCHANGED <<factory, remote_call, load_status, remote_result,
                   rid, resource, generator>>

\* create_sync_flow run alone, in one step: what it returns and logs.
create_sync_flow(resource_identifier) ==
    Dispatch(resource_identifier,
             _get_generator_function(resource_identifier),
             get_resource_by_id(stacks, resource_identifier))

\* ----------------------------------------------------------- specifications
\* One caller: the single-threaded use of the factory.
Next ==
    \/ LoadBegin
    \/ \E mapping \in PhysicalIdMappings : LoadReturn(mapping)
    \/ LoadRaise
    \/ \E resource_identifier \in Identifiers : Call(1, resource_identifier)
    \/ GetResource(1)
    \/ GetGenerator(1)
    \/ Return(1)

Spec == Init /\ [][Next]_vars

\* Several callers: create_sync_flow entered from concurrent threads, over
\* stack collections holding a zip function or a state machine that is skipped.
ConcurrentResources ==
    {[Type |-> AWS_SERVERLESS_FUNCTION, Properties |-> EmptyDict],
     [Type |-> AWS_STEPFUNCTIONS_STATEMACHINE,
      Properties |-> [DefinitionSubstitutions |-> [Key |-> Str("Val")]]]}

ConcurrentInit == InitWith(ConcurrentResources)

ConcurrentNext ==
    \/ LoadBegin
    \/ \E mapping \in PhysicalIdMappings : LoadReturn(mapping)
    \/ LoadRaise
    \/ \E c \in Callers, resource_identifier \in Identifiers : Call(c, resource_identifier)
    \/ \E c \in Callers : GetResource(c)
    \/ \E c \in Callers : GetGenerator(c)
    \/ \E c \in Callers : Return(c)

ConcurrentSpec == ConcurrentInit /\ [][ConcurrentNext]_vars

\* ------------------------------------------------------------- properties
FunctionTypes == {AWS_SERVERLESS_FUNCTION, AWS_LAMBDA_FUNCTION}
LayerTypes == {AWS_SERVERLESS_LAYERVERSION, AWS_LAMBDA_LAYERVERSION}
RestApiTypes == {AWS_SERVERLESS_API, AWS_APIGATEWAY_RESTAPI}
HttpApiTypes == {AWS_SERVERLESS_HTTPAPI, AWS_APIGATEWAY_V2_API}
StateMachineTypes == {AWS_SERVERLESS_STATEMACHINE, AWS_STEPFUNCTIONS_STATEMACHINE}

\* The other declaration form of a supported resource type.
OtherForm(t) ==
    CASE t = AWS_SERVERLESS_FUNCTION -> AWS_LAMBDA_FUNCTION
      [] t = AWS_LAMBDA_FUNCTION -> AWS_SERVERLESS_FUNCTION
      [] t = AWS_SERVERLESS_LAYERVERSION -> AWS_LAMBDA_LAYERVERSION
      [] t = AWS_LAMBDA_LAYERVERSION -> AWS_SERVERLESS_LAYERVERSION
      [] t = AWS_SERVERLESS_API -> AWS_APIGATEWAY_RESTAPI
      [] t = AWS_APIGATEWAY_RESTAPI -> AWS_SERVERLESS_API
      [] t = AWS_SERVERLESS_HTTPAPI -> AWS_APIGATEWAY_V2_API
      [] t = AWS_APIGATEWAY_V2_API -> AWS_SERVERLESS_HTTPAPI
      [] t = AWS_SERVERLESS_STATEMACHINE -> AWS_STEPFUNCTIONS_STATEMACHINE
      [] t = AWS_STEPFUNCTIONS_STATEMACHINE -> AWS_SERVERLESS_STATEMACHINE

\* The call of caller c has returned.
Done(c) == pc[c] = "done"
\* The step in which the call of caller c returns.
Returns(c) == pc[c] = "dispatch" /\ pc'[c] = "done"
\* What the stack collection declares for the identifier caller c passed.
Declared(c) == get_resource_by_id(stacks, rid[c])
TypeOf(res) == Get(res, "Type", None)
PropertiesOf(res) == Get(res, "Properties", EmptyDict)
\* The flow class of a returned value ("" when it is no flow).
ClassOf(value) == IF "cls" \in DOMAIN value THEN value.cls ELSE ""
\* The warning _create_stepfunctions_flow logs for an identifier.
SkipWarning(resource_identifier) ==
    LogRecord("WARNING",
              "DefinitionSubstitutions property is specified in resource %s. Skipping this resource.",
              str(resource_identifier))
\* The mapping of the last load that completed, empty when none has.
LastLoaded == IF remote_result = None THEN EmptyDict ELSE remote_result

\* C1: a call on a function resource (either form) whose PackageType is
\* unset or "Zip" never returns None: it returns the auto-dependency-layer
\* flow when the flag is set and the zip flow when it is not.
C1_ZipOrUnsetBuildsZipFlow ==
    \A c \in Callers :
        (/\ Done(c)
         /\ TypeOf(Declared(c)) \in FunctionTypes
         /\ \/ "PackageType" \notin DOMAIN PropertiesOf(Declared(c))
            \/ PropertiesOf(Declared(c)).PackageType = ZIP)
        => /\ result[c] # None
           /\ ClassOf(result[c]) = IF auto_dependency_layer
                                   THEN "AutoDependencyLayerParentSyncFlow"
                                   ELSE "ZipFunctionSyncFlow"

\* A returned call on a function without PackageType, with the flag set,
\* that built the auto-dependency-layer flow.
C1_Witness ==
    \E c \in Callers :
        /\ Done(c)
        /\ TypeOf(Declared(c)) \in FunctionTypes
        /\ "PackageType" \notin DOMAIN PropertiesOf(Declared(c))
        /\ auto_dependency_layer
        /\ ClassOf(result[c]) = "AutoDependencyLayerParentSyncFlow"

\* C2: a call on a function resource with PackageType "Image" returns the
\* image flow, whatever the auto-dependency-layer flag.
C2_ImageBuildsImageFlow ==
    \A c \in Callers :
        (/\ Done(c)
         /\ TypeOf(Declared(c)) \in FunctionTypes
         /\ Get(PropertiesOf(Declared(c)), "PackageType", None) = IMAGE)
        => ClassOf(result[c]) = "ImageFunctionSyncFlow"

\* A returned call on an Image function, with the flag set, that built the
\* image flow.
C2_Witness ==
    \E c \in Callers :
        /\ Done(c)
        /\ TypeOf(Declared(c)) \in FunctionTypes
        /\ Get(PropertiesOf(Declared(c)), "PackageType", None) = IMAGE
        /\ auto_dependency_layer
        /\ ClassOf(result[c]) = "ImageFunctionSyncFlow"

\* C3: a call on a function resource whose PackageType is present and is
\* neither "Zip" nor "Image" returns None (no flow, no exception), whatever
\* the flag.
C3_OtherPackageTypeReturnsNone ==
    \A c \in Callers :
        (/\ Done(c)
         /\ TypeOf(Declared(c)) \in FunctionTypes
         /\ "PackageType" \in DOMAIN PropertiesOf(Declared(c))
         /\ PropertiesOf(Declared(c)).PackageType \notin {ZIP, IMAGE})
        => result[c] = None

\* A returned call on a function with PackageType "Banana" that gave None
\* after invoking the function handler.
C3_Witness ==
    \E c \in Callers :
        /\ Done(c)
        /\ TypeOf(Declared(c)) \in FunctionTypes
        /\ Get(PropertiesOf(Declared(c)), "PackageType", None) = Str("Banana")
        /\ invoked[c] = Str("_create_lambda_flow")
        /\ result[c] = None

\* C4: the step in which a call on a state-machine resource (either form)
\* returns: with a non-empty DefinitionSubstitutions it returns None and
\* logs one warning naming the identifier; with the property absent or
\* empty it returns the state-machine flow and logs nothing.
C4_DefinitionSubstitutionsSkips ==
    [][\A c \in Callers :
         (Returns(c) /\ TypeOf(Declared(c)) \in StateMachineTypes)
         => IF Get(PropertiesOf(Declared(c)), "DefinitionSubstitutions", EmptyDict)
                 # EmptyDict
            THEN /\ result'[c] = None
                 /\ LOG' = Append(LOG, SkipWarning(rid[c]))
            ELSE /\ ClassOf(result'[c]) = "StepFunctionsSyncFlow"
                 /\ LOG' = LOG]_vars

\* A returned call on a state machine with substitutions: None, and the
\* warning naming its identifier is the last record logged.
C4_Witness ==
    \E c \in Callers :
        /\ Done(c)
        /\ TypeOf(Declared(c)) \in StateMachineTypes
        /\ Get(PropertiesOf(Declared(c)), "DefinitionSubstitutions", EmptyDict)
             = [Key |-> Str("Val")]
        /\ result[c] = None
        /\ LOG # <<>>
        /\ LOG[Len(LOG)] = SkipWarning(rid[c])

\* C5: a call whose identifier names no resource of the stack collection,
\* or a resource whose type has no entry in the handler table, returns None
\* without raising and without invoking a handler.
C5_UnknownReturnsNone ==
    \A c \in Callers :
        (/\ Done(c)
         /\ \/ Declared(c) = None
            \/ TypeOf(Declared(c)) \notin DOMAIN GENERATOR_MAPPING)
        => /\ result[c] = None
           /\ invoked[c] = None

\* A returned call on a declared resource of a type outside the table.
C5_Witness ==
    \E c \in Callers :
        /\ Done(c)
        /\ Declared(c) # None
        /\ TypeOf(Declared(c)) = Str("AWS::S3::Bucket")
        /\ result[c] = None
        /\ invoked[c] = None

\* C6: a call on a layer-version, REST API or HTTP API resource returns the
\* layer, REST API or HTTP API flow, whatever the properties and the flag;
\* a call on a resource of a supported type returns None only for a
\* function with an unrecognized PackageType or a state machine with a
\* non-empty DefinitionSubstitutions.
C6_SupportedTypesBuildTheirFlow ==
    \A c \in Callers :
        Done(c) =>
          LET t == TypeOf(Declared(c))
              props == PropertiesOf(Declared(c))
          IN  /\ t \in LayerTypes => ClassOf(result[c]) = "LayerSyncFlow"
              /\ t \in RestApiTypes => ClassOf(result[c]) = "RestApiSyncFlow"
              /\ t \in HttpApiTypes => ClassOf(result[c]) = "HttpApiSyncFlow"
              /\ (t \in SupportedTypes /\ ClassOf(result[c]) = "")
                 => \/ /\ t \in FunctionTypes
                       /\ "PackageType" \in DOMAIN props
                       /\ props.PackageType \notin {ZIP, IMAGE}
                    \/ /\ t \in StateMachineTypes
                       /\ Get(props, "DefinitionSubstitutions", EmptyDict) # EmptyDict

\* A returned call on a layer declared with function and state-machine
\* properties, with the flag set, that built the layer flow.
C6_Witness ==
    \E c \in Callers :
        /\ Done(c)
        /\ TypeOf(Declared(c)) \in LayerTypes
        /\ PropertiesOf(Declared(c)) =
             [PackageType |-> Str("Banana"),
              DefinitionSubstitutions |-> [Key |-> Str("Val")]]
        /\ auto_dependency_layer
        /\ ClassOf(result[c]) = "LayerSyncFlow"

\* C7: the step in which a call on a resource of a supported type returns
\* gives what the handler registered for the other declaration form of that
\* type gives for the same identifier, properties and factory state: the
\* same value returned and the same records logged.
C7_BothFormsSameOutcome ==
    [][\A c \in Callers :
         (Returns(c) /\ TypeOf(Declared(c)) \in SupportedTypes)
         => LET other == [Declared(c) EXCEPT !.Type = OtherForm(@)]
                out == CallGenerator(GENERATOR_MAPPING[other.Type], rid[c], other)
            IN  /\ result'[c] = out.ret
                /\ LOG' = LOG \o out.log]_vars

\* A returned call on a function in its expanded form that built a flow.
C7_Witness ==
    \E c \in Callers :
        /\ Done(c)
        /\ TypeOf(Declared(c)) = AWS_LAMBDA_FUNCTION
        /\ invoked[c] = Str("_create_lambda_flow")
        /\ ClassOf(result[c]) = "ZipFunctionSyncFlow"

\* C8: a flow built by a returning call holds the mapping of the last load
\* that completed (the empty mapping when none has); and a load that
\* completes leaves the factory holding exactly the mapping the remote
\* returned, so a repeated load with the same answer changes nothing.
C8_FlowsReceiveLastLoadedMapping ==
    [][/\ \A c \in Callers :
            (Returns(c) /\ ClassOf(result'[c]) # "")
            => result'[c].physical_id_mapping = LastLoaded
       /\ (remote_call # None /\ load_status' = "returned" /\ remote_call' = None)
            => /\ physical_id_mapping' = remote_result'
               /\ (remote_result' = LastLoaded
                   => physical_id_mapping' = physical_id_mapping)]_vars

\* A returned call whose flow holds a non-empty mapping, the one last loaded.
C8_Witness ==
    \E c \in Callers :
        /\ Done(c)
        /\ ClassOf(result[c]) # ""
        /\ load_status = "returned"
        /\ result[c].physical_id_mapping = remote_result
        /\ remote_result # EmptyDict

\* C9: no step of create_sync_flow changes the factory's state, and a call
\* that returns, however its steps interleave with those of other calls,
\* returns and logs what create_sync_flow run alone in that state does.
C9_CallsDoNotInterfere ==
    [][\A c \in Callers :
         pc'[c] # pc[c]
         => /\ factory' = factory
            /\ Returns(c)
               => /\ result'[c] = create_sync_flow(rid[c]).ret
                  /\ invoked'[c] = create_sync_flow(rid[c]).invoked
                  /\ LOG' = LOG \o create_sync_flow(rid[c]).log]_vars

\* After a load, one call has returned a flow while another call, for an
\* identifier that names nothing, is in flight with its own locals.
C9_Witness ==
    \E c, d \in Callers :
        /\ c # d
        /\ load_status = "returned"
        /\ Done(c)
        /\ ClassOf(result[c]) # ""
        /\ result[c].physical_id_mapping # EmptyDict
        /\ pc[d] = "dispatch"
        /\ rid[d] # rid[c]
        /\ resource[d] = None

\* C10: the step in which the remote lookup fails leaves the held mapping
\* as it was and reports the failure; a flow built while the last load has
\* failed holds the mapping of the last load that succeeded.
C10_FailedLoadKeepsMapping ==
    [][/\ (remote_call # None /\ load_status' = "raised" /\ remote_call' = None)
            => physical_id_mapping' = physical_id_mapping
       /\ \A c \in Callers :
            (Returns(c) /\ load_status = "raised" /\ ClassOf(result'[c]) # "")
            => result'[c].physical_id_mapping = LastLoaded]_vars

\* The last load failed after an earlier one succeeded, and a returned
\* call's flow holds the mapping of the earlier one.
C10_Witness ==
    \E c \in Callers :
        /\ load_status = "raised"
        /\ physical_id_mapping # EmptyDict
        /\ physical_id_mapping = remote_result
        /\ Done(c)
        /\ ClassOf(result[c]) # ""
        /\ result[c].physical_id_mapping = physical_id_mapping

=============================================================================
